---- MODULE Spec2Model ----
\* Model of the Ecotracker Home Assistant integration
\* (custom_components/ecotracker: config_flow.py and sensor.py).
\*
\* State: the setup wizard's last result, the options editor's last result,
\* the persisted configuration entry, the coordinator (data,
\* last_update_success, update_interval), the registered sensor entities and
\* the position of async_setup_entry.  Every HTTP GET draws the device's
\* answer from the set Responses.
EXTENDS Integers, Sequences, FiniteSets, TLC

VARIABLES
    flowResult,          \* FlowResult of the last ConfigFlow.async_step_user call
    optionsResult,       \* FlowResult of the last OptionsFlowHandler.async_step_init call
    entries,             \* persisted config entries: <<>> or <<entry.data>>
    pc,                  \* position of async_setup_entry for the entry
    data,                \* coordinator.data
    last_update_success, \* coordinator.last_update_success
    update_interval,     \* coordinator.update_interval in seconds (0: no coordinator)
    entities,            \* sensors registered through async_add_entities
    fetchCount,          \* number of _async_update_data calls so far
    lastOp,              \* name of the handler that ran last
    lastInput,           \* the validated user_input of the last form submission
    lastResp,            \* the endpoint's answer to the last GET
    lastOutcome          \* what the last validate_input / _async_update_data did

vars == <<flowResult, optionsResult, entries, pc, data, last_update_success,
          update_interval, entities, fetchCount, lastOp, lastInput, lastResp,
          lastOutcome>>

-----------------------------------------------------------------------------
\* Bounds

MaxFetches == 3

-----------------------------------------------------------------------------
\* Program constants

DEFAULT_SCAN_INTERVAL == 5
MinScanInterval == 1
MaxScanInterval == 3600
HTTP_OK == 200

CONF_IP_ADDRESS == "ip_address"
CONF_SCAN_INTERVAL == "scan_interval"

RequiredKeys == <<"power", "energyCounterIn", "energyCounterOut">>

-----------------------------------------------------------------------------
\* JSON values.  A number is kept in tenths (12345 is 1234.5) so that a
\* rounding of it would show.

JNum(n) == [t |-> "num", n |-> n]
JStr    == [t |-> "str", n |-> 0]
PyNone  == [t |-> "null", n |-> 0]

Range(s) == {s[i] : i \in DOMAIN s}
KeySet == Range(RequiredKeys)

EmptyObj == [k \in {} |-> PyNone]

\* A parsed body: what response.json() returns.
\*   object: a dict; array: a list of strings; string: a str that has the
\*   strings of `items` as substrings; number: an int or float; null: None.
JObject(o)  == [kind |-> "object", obj |-> o, items |-> {}]
JArray(s)   == [kind |-> "array",  obj |-> EmptyObj, items |-> s]
JString(s)  == [kind |-> "string", obj |-> EmptyObj, items |-> s]
JNumber     == [kind |-> "number", obj |-> EmptyObj, items |-> {}]
None        == [kind |-> "null",   obj |-> EmptyObj, items |-> {}]

Reading(p, i, o) == [power |-> p, energyCounterIn |-> i, energyCounterOut |-> o]

\* {"power": 1234.5, "energyCounterIn": 100.2, "energyCounterOut": 3.1} and
\* a later reading of the same meter
NumericObjects ==
    { Reading(JNum(12345), JNum(1002), JNum(31)),
      Reading(JNum(-507), JNum(1002), JNum(38)) }

\* the three keys and one more
ExtraObjects ==
    { [k \in KeySet \cup {"extra"} |->
         IF k = "power" THEN JNum(12345) ELSE IF k = "extra" THEN JStr ELSE JNum(64)] }

\* the three keys, one of them with a string or a null
NonNumericObjects ==
    { Reading(JStr, JNum(1002), JNum(31)),
      Reading(JNum(12345), JNum(1002), PyNone) }

\* at least one of the three keys is missing
MissingKeyObjects ==
    { [k \in ks |-> JNum(10)] :
        ks \in { {}, {"power"}, {"power", "extra"}, {"power", "energyCounterIn"},
                 {"power", "energyCounterOut"}, {"energyCounterIn", "energyCounterOut"} } }

ParsedBodies ==
    {JObject(o) : o \in NumericObjects \cup ExtraObjects \cup NonNumericObjects
                        \cup MissingKeyObjects}
    \cup {JArray(KeySet), JArray({"power"}), JString(KeySet), JNumber, None}

\* The endpoint's answer to one GET.
\*   transport: "ok", "client_error" (aiohttp.ClientError raised by
\*   session.get) or "timeout" (async_timeout expired);
\*   payload: "json" (parsed is the body), "bad_json" (json.JSONDecodeError)
\*   or "wrong_content_type" (aiohttp.ContentTypeError).
Response(tr, st, pl, b) == [transport |-> tr, status |-> st, payload |-> pl, parsed |-> b]

Responses ==
    {Response("client_error", 0, "json", None), Response("timeout", 0, "json", None)}
    \cup {Response("ok", st, "json", JObject(Reading(JNum(12345), JNum(1002), JNum(31)))) :
             st \in {404, 500}}
    \cup {Response("ok", HTTP_OK, pl, None) : pl \in {"bad_json", "wrong_content_type"}}
    \cup {Response("ok", HTTP_OK, "json", b) : b \in ParsedBodies}

-----------------------------------------------------------------------------
\* Exceptions.  msg is str(err) as a sequence of its pieces.

Raised(type, msg) == [ok |-> FALSE, exc |-> type, msg |-> msg]
Returned == [ok |-> TRUE, exc |-> "", msg |-> <<>>]

\* aiohttp.ContentTypeError and aiohttp.ClientConnectorError derive from
\* aiohttp.ClientError; asyncio.TimeoutError, json.JSONDecodeError, TypeError
\* and the HomeAssistantError subclasses CannotConnect, InvalidData and
\* UpdateFailed derive from Exception only.
IsClientError(type) == type \in {"ClientConnectorError", "ContentTypeError"}

\* Python's `key in json_data`: dict membership tests the keys, list
\* membership the elements, str membership the substrings; an int, a float
\* or None is not iterable and raises TypeError.
IsContainer(b) == b.kind \in {"object", "array", "string"}
PyIn(key, b) ==
    IF b.kind = "object" THEN key \in DOMAIN b.obj ELSE key \in b.items

\* `async with session.get(url) as response` under async_timeout.timeout(10)
SessionGet(resp) ==
    CASE resp.transport = "client_error" -> Raised("ClientConnectorError", <<"Cannot connect to host">>)
      [] resp.transport = "timeout"      -> Raised("TimeoutError", <<>>)
      [] OTHER                           -> Returned

\* `await response.json()`
ResponseJson(resp) ==
    CASE resp.payload = "wrong_content_type" -> Raised("ContentTypeError", <<"unexpected mimetype">>)
      [] resp.payload = "bad_json"           -> Raised("JSONDecodeError", <<"Expecting value">>)
      [] OTHER                               -> Returned

\* ---- config_flow.py : validate_input ----

validate_required_keys_any(json_data) ==
    \E i \in DOMAIN RequiredKeys : PyIn(RequiredKeys[i], json_data)

\* all(key in json_data for key in [...]), json_data a container
validate_required_keys(json_data) ==
    \A i \in DOMAIN RequiredKeys : PyIn(RequiredKeys[i], json_data)

\* the body of the try block: what it raises, or Returned
validate_try(resp) ==
    IF ~SessionGet(resp).ok THEN SessionGet(resp)
    ELSE IF resp.status # HTTP_OK
         THEN Raised("CannotConnect", <<"HTTP ", ToString(resp.status)>>)
    ELSE IF ~ResponseJson(resp).ok THEN ResponseJson(resp)
    ELSE IF ~IsContainer(resp.parsed)
         THEN Raised("TypeError", <<"argument is not iterable">>)
    ELSE IF ~validate_required_keys(resp.parsed)
         THEN Raised("InvalidData", <<"Missing required keys in JSON response">>)
    ELSE Returned

\* the two except clauses, tried in order on whatever the try block raised
validate_except(err) ==
    IF IsClientError(err.exc)
    THEN Raised("CannotConnect", <<"Connection error: ">> \o err.msg)
    ELSE Raised("CannotConnect", <<"Unexpected error: ">> \o err.msg)

Title(ip_address) == <<"Ecotracker (", ip_address, ")">>

validate_input(user_data, resp) ==
    LET r == validate_try(resp)
        e == validate_except(r)
    IN  IF r.ok
        THEN [ok |-> TRUE, exc |-> "", msg |-> <<>>, title |-> Title(user_data.ip_address)]
        ELSE [ok |-> FALSE, exc |-> e.exc, msg |-> e.msg, title |-> <<>>]

Outcome(r) == [ok |-> r.ok, exc |-> r.exc, msg |-> r.msg]

\* ---- sensor.py : EcotrackerCoordinator._async_update_data ----

update_required_keys(d) ==
    \A i \in DOMAIN RequiredKeys : PyIn(RequiredKeys[i], d)

update_try(resp) ==
    IF ~SessionGet(resp).ok THEN SessionGet(resp)
    ELSE IF resp.status # HTTP_OK
         THEN Raised("UpdateFailed", <<"Error fetching data: HTTP ", ToString(resp.status)>>)
    ELSE IF ~ResponseJson(resp).ok THEN ResponseJson(resp)
    ELSE IF ~IsContainer(resp.parsed)
         THEN Raised("TypeError", <<"argument is not iterable">>)
    ELSE IF ~update_required_keys(resp.parsed)
         THEN Raised("UpdateFailed", <<"Missing required keys in response">>)
    ELSE Returned

update_except(err) ==
    IF IsClientError(err.exc)
    THEN Raised("UpdateFailed", <<"Error communicating with API: ">> \o err.msg)
    ELSE Raised("UpdateFailed", <<"Unexpected error: ">> \o err.msg)

\* `return data` hands back the parsed body itself
update_return_rounded(d) ==
    IF d.kind = "object"
    THEN JObject([k \in DOMAIN d.obj |->
                    IF d.obj[k].t = "num" THEN JNum((d.obj[k].n \div 10) * 10) ELSE d.obj[k]])
    ELSE d

update_return(d) == d

async_update_data(resp) ==
    LET r == update_try(resp)
        e == update_except(r)
    IN  IF r.ok
        THEN [ok |-> TRUE, exc |-> "", msg |-> <<>>, data |-> update_return(resp.parsed)]
        ELSE [ok |-> FALSE, exc |-> e.exc, msg |-> e.msg, data |-> None]

\* ---- sensor.py : the three native_value properties ----

\* self.coordinator.data.get(key): dict.get gives the value or None; a list,
\* a str or None has no attribute `get` (AttributeError).
DataGet(d, key) ==
    IF d.kind = "object"
    THEN [raised |-> FALSE, value |-> IF key \in DOMAIN d.obj THEN d.obj[key] ELSE PyNone]
    ELSE [raised |-> TRUE, value |-> PyNone]

PowerSensor_native_value(d)     == DataGet(d, "power")
EnergyInSensor_native_value(d)  == DataGet(d, "energyCounterIn")
EnergyOutSensor_native_value(d) == DataGet(d, "energyCounterOut")

-----------------------------------------------------------------------------
\* What a user types into a form, before the form's schema has been applied.

Hosts == {"192.168.1.10", "ecotracker.local"}

RawMissing    == [t |-> "missing", n |-> 0, s |-> ""]
RawInt(n)     == [t |-> "int",     n |-> n, s |-> ""]
RawFloat(n)   == [t |-> "float",   n |-> n, s |-> ""]   \* n in tenths
RawDigits(n)  == [t |-> "digits",  n |-> n, s |-> ""]   \* the str of the int n
RawText(s)    == [t |-> "text",    n |-> 0, s |-> s]    \* any other str

RawIntervals ==
    {RawMissing, RawInt(0), RawInt(1), RawInt(3601), RawDigits(3600),
     RawFloat(19), RawText("abc")}

RawAddresses == {RawText(h) : h \in Hosts} \cup {RawMissing, RawInt(7)}

Valid(v) == [ok |-> TRUE, value |-> v]
Invalid  == [ok |-> FALSE, value |-> 0]

\* vol.Coerce(int): int(v), Invalid when int() raises
CoerceInt(raw) ==
    CASE raw.t = "int"    -> Valid(raw.n)
      [] raw.t = "digits" -> Valid(raw.n)
      [] raw.t = "float"  -> Valid(IF raw.n >= 0 THEN raw.n \div 10 ELSE -((-raw.n) \div 10))
      [] OTHER            -> Invalid

\* vol.Range(min=1, max=3600)
InRange(n) ==
    IF n >= MinScanInterval /\ n <= MaxScanInterval THEN Valid(n) ELSE Invalid

\* vol.Optional(CONF_SCAN_INTERVAL, default=d): vol.All(vol.Coerce(int), vol.Range(...))
ScanIntervalField(raw, default) ==
    IF raw.t = "missing" THEN InRange(default)
    ELSE IF ~CoerceInt(raw).ok THEN Invalid
    ELSE InRange(CoerceInt(raw).value)

\* vol.Required(CONF_IP_ADDRESS): str
IpAddressField(raw) ==
    IF raw.t = "text" THEN [ok |-> TRUE, value |-> raw.s]
    ELSE [ok |-> FALSE, value |-> ""]

ConfigData(ip, interval) == [ip_address |-> ip, scan_interval |-> interval]

STEP_USER_DATA_SCHEMA(rawIp, rawInterval) ==
    LET a == IpAddressField(rawIp)
        i == ScanIntervalField(rawInterval, DEFAULT_SCAN_INTERVAL)
    IN  [ok |-> a.ok /\ i.ok, value |-> ConfigData(a.value, i.value)]

\* the schema async_step_init shows: only the interval, defaulting to the current one
OptionsSchema(rawInterval, current_interval) ==
    LET i == ScanIntervalField(rawInterval, current_interval)
    IN  [ok |-> i.ok, value |-> [scan_interval |-> i.value]]

-----------------------------------------------------------------------------
\* Flow results

NoErrors == {}
BaseError(code) == {<<"base", code>>}

ShowForm(step, errs, default) ==
    [type |-> "form", step_id |-> step, errors |-> errs, default |-> default,
     title |-> <<>>, data |-> <<>>]
CreateEntry(title, d) ==
    [type |-> "create_entry", step_id |-> "", errors |-> NoErrors, default |-> 0,
     title |-> title, data |-> d]
NoFlow ==
    [type |-> "none", step_id |-> "", errors |-> NoErrors, default |-> 0,
     title |-> <<>>, data |-> <<>>]

\* ---- config_flow.py : ConfigFlow.async_step_user ----

step_user_error_unknown(exc) ==
    IF exc = "InvalidData" THEN "invalid_data" ELSE "unknown"

\* the except clauses of async_step_user, tried in order
step_user_error(exc) ==
    CASE exc = "CannotConnect" -> "cannot_connect"
      [] exc = "InvalidData"   -> "invalid_data"
      [] OTHER                 -> "unknown"

step_user_entry_data_defaulted(user_input) ==
    ConfigData(user_input.ip_address, DEFAULT_SCAN_INTERVAL)

\* data=user_input
step_user_entry_data(user_input) == user_input

\* user_input: <<>> for None, <<d>> for the validated dict d
async_step_user(user_input, resp) ==
    IF user_input = <<>>
    THEN ShowForm("user", NoErrors, DEFAULT_SCAN_INTERVAL)
    ELSE LET info == validate_input(user_input[1], resp)
         IN  IF info.ok
             THEN CreateEntry(info.title, <<step_user_entry_data(user_input[1])>>)
             ELSE ShowForm("user", BaseError(step_user_error(info.exc)), DEFAULT_SCAN_INTERVAL)

\* ---- config_flow.py : OptionsFlowHandler.async_step_init ----

DictGet(d, key, default) == IF key \in DOMAIN d THEN d[key] ELSE default

merged_data_replaced(entry_data, user_input) ==
    ConfigData("", user_input.scan_interval)

\* {**self.config_entry.data, **user_input}
merged_data(entry_data, user_input) ==
    [k \in DOMAIN entry_data \cup DOMAIN user_input |->
        IF k \in DOMAIN user_input THEN user_input[k] ELSE entry_data[k]]

\* result and the entry data after the call
async_step_init(entry_data, user_input) ==
    IF user_input = <<>>
    THEN [result |-> ShowForm("init", NoErrors,
                              DictGet(entry_data, CONF_SCAN_INTERVAL, DEFAULT_SCAN_INTERVAL)),
          entry_data |-> entry_data]
    ELSE [result |-> CreateEntry(<<>>, <<>>),
          entry_data |-> merged_data(entry_data, user_input[1])]

\* ---- sensor.py : async_setup_entry ----

first_refresh_ignored(r) == "continue"

\* coordinator.async_config_entry_first_refresh(): a failed first refresh
\* raises ConfigEntryNotReady out of async_setup_entry
async_config_entry_first_refresh(r) ==
    IF r.ok THEN "continue" ELSE "ConfigEntryNotReady"

SensorKeys == {"power", "energy_in", "energy_out"}

-----------------------------------------------------------------------------
\* The state machine

NoResponse == Response("none", 0, "json", None)

Init ==
    /\ flowResult = NoFlow
    /\ optionsResult = NoFlow
    /\ entries = <<>>
    /\ pc = "no_entry"
    /\ data = None
    /\ last_update_success = TRUE
    /\ update_interval = 0
    /\ entities = {}
    /\ fetchCount = 0
    /\ lastOp = "init"
    /\ lastInput = <<>>
    /\ lastResp = NoResponse
    /\ lastOutcome = Returned

coordVars == <<data, last_update_success, update_interval, entities, fetchCount>>

\* The user opens the setup wizard: async_step_user(None).
UserStepShow ==
    /\ flowResult.type = "none"
    /\ flowResult' = async_step_user(<<>>, NoResponse)
    /\ lastOp' = "user_show"
    /\ lastInput' = <<>>
    /\ UNCHANGED <<optionsResult, entries, pc, coordVars, lastResp, lastOutcome>>

\* The user submits the wizard's form; the flow manager applies
\* STEP_USER_DATA_SCHEMA and calls async_step_user with the validated dict.
UserStepSubmit(rawIp, rawInterval, resp) ==
    /\ flowResult.type = "form"
    /\ STEP_USER_DATA_SCHEMA(rawIp, rawInterval).ok
    /\ LET user_input == STEP_USER_DATA_SCHEMA(rawIp, rawInterval).value
           result == async_step_user(<<user_input>>, resp)
       IN  /\ flowResult' = result
           /\ lastOutcome' = Outcome(validate_input(user_input, resp))
           /\ lastInput' = <<user_input>>
           /\ IF result.type = "create_entry"
              THEN entries' = result.data /\ pc' = "not_loaded"
              ELSE UNCHANGED <<entries, pc>>
    /\ lastOp' = "user_submit"
    /\ lastResp' = resp
    /\ UNCHANGED <<optionsResult, coordVars>>

\* The user opens the options editor: async_step_init(None).
OptionsShow ==
    /\ entries # <<>>
    /\ optionsResult.type # "form"
    /\ optionsResult' = async_step_init(entries[1], <<>>).result
    /\ lastOp' = "options_show"
    /\ lastInput' = <<>>
    /\ UNCHANGED <<flowResult, entries, pc, coordVars, lastResp, lastOutcome>>

\* The user submits the options form; the flow manager applies the schema
\* the form was shown with and calls async_step_init with the validated dict.
OptionsSubmit(rawInterval) ==
    /\ entries # <<>>
    /\ optionsResult.type = "form"
    /\ OptionsSchema(rawInterval, optionsResult.default).ok
    /\ LET user_input == OptionsSchema(rawInterval, optionsResult.default).value
           r == async_step_init(entries[1], <<user_input>>)
       IN  /\ optionsResult' = r.result
           /\ entries' = <<r.entry_data>>
           /\ lastInput' = <<user_input>>
    /\ lastOp' = "options_submit"
    /\ UNCHANGED <<flowResult, pc, coordVars, lastResp, lastOutcome>>

\* async_setup_entry up to its await: the coordinator is constructed.
SetupEntryBegin ==
    /\ pc \in {"not_loaded", "setup_retry"}
    /\ fetchCount < MaxFetches
    /\ update_interval' = DictGet(entries[1], CONF_SCAN_INTERVAL, DEFAULT_SCAN_INTERVAL)
    /\ data' = None
    /\ last_update_success' = TRUE
    /\ pc' = "first_refresh"
    /\ lastOp' = "setup_begin"
    /\ lastInput' = <<>>
    /\ UNCHANGED <<flowResult, optionsResult, entries, entities, fetchCount,
                   lastResp, lastOutcome>>

\* async_setup_entry from the first refresh's GET to its end: either
\* ConfigEntryNotReady leaves it, or the three sensors are added.
SetupEntryFirstRefresh(resp) ==
    /\ pc = "first_refresh"
    /\ LET r == async_update_data(resp)
       IN  /\ lastOutcome' = Outcome(r)
           /\ last_update_success' = r.ok
           /\ data' = IF r.ok THEN r.data ELSE data
           /\ IF async_config_entry_first_refresh(r) = "continue"
              THEN entities' = SensorKeys /\ pc' = "loaded"
              ELSE entities' = entities /\ pc' = "setup_retry"
    /\ fetchCount' = fetchCount + 1
    /\ lastOp' = "first_refresh"
    /\ lastInput' = <<>>
    /\ lastResp' = resp
    /\ UNCHANGED <<flowResult, optionsResult, entries, update_interval>>

\* One scheduled refresh of the coordinator: _async_update_data, whose
\* result replaces coordinator.data; a failure leaves the data in place.
Tick(resp) ==
    /\ pc = "loaded"
    /\ fetchCount < MaxFetches
    /\ LET r == async_update_data(resp)
       IN  /\ lastOutcome' = Outcome(r)
           /\ last_update_success' = r.ok
           /\ data' = IF r.ok THEN r.data ELSE data
    /\ fetchCount' = fetchCount + 1
    /\ lastOp' = "tick"
    /\ lastInput' = <<>>
    /\ lastResp' = resp
    /\ UNCHANGED <<flowResult, optionsResult, entries, pc, update_interval, entities>>

Next ==
    \/ UserStepShow
    \/ \E rawIp \in RawAddresses, rawInterval \in RawIntervals, resp \in Responses :
          UserStepSubmit(rawIp, rawInterval, resp)
    \/ OptionsShow
    \/ \E rawInterval \in RawIntervals : OptionsSubmit(rawInterval)
    \/ SetupEntryBegin
    \/ \E resp \in Responses : SetupEntryFirstRefresh(resp)
    \/ \E resp \in Responses : Tick(resp)

Spec == Init /\ [][Next]_vars

TypeOK ==
    /\ Len(entries) <= 1
    /\ pc \in {"no_entry", "not_loaded", "first_refresh", "setup_retry", "loaded"}
    /\ fetchCount \in 0..MaxFetches
    /\ entities \in {{}, SensorKeys}

-----------------------------------------------------------------------------
\* Vocabulary of the properties

FetchOps == {"first_refresh", "tick"}

AnsweredOk(resp) == resp.transport = "ok" /\ resp.status = HTTP_OK /\ resp.payload = "json"

IsJsonObject(resp) == AnsweredOk(resp) /\ resp.parsed.kind = "object"

HasAllKeys(b) == IsContainer(b) /\ \A k \in KeySet : PyIn(k, b)

ObjectMissingKey(resp) ==
    IsJsonObject(resp) /\ \E k \in KeySet : k \notin DOMAIN resp.parsed.obj

ObjectWithAllKeys(resp) ==
    IsJsonObject(resp) /\ \A k \in KeySet : k \in DOMAIN resp.parsed.obj

AllNumeric(resp) == \A k \in KeySet : resp.parsed.obj[k].t = "num"

ConnectFailure(resp) ==
    \/ resp.transport \in {"client_error", "timeout"}
    \/ resp.transport = "ok" /\ resp.status # HTTP_OK

ErrorCodes == {"cannot_connect", "invalid_data", "unknown"}

\* the three readings, by the key each one selects
ReadingOf(d) ==
    [power      |-> PowerSensor_native_value(d),
     energy_in  |-> EnergyInSensor_native_value(d),
     energy_out |-> EnergyOutSensor_native_value(d)]

FieldOf == [power |-> "power", energy_in |-> "energyCounterIn", energy_out |-> "energyCounterOut"]

\* the error class a failed fetch cycle reports, read off the message of the
\* UpdateFailed that leaves _async_update_data
ErrorKind(outcome) ==
    IF outcome.ok \/ outcome.msg = <<>> THEN "none"
    ELSE CASE outcome.msg[1] = "Error fetching data: HTTP "      -> "BadStatus"
           [] outcome.msg[1] = "Error communicating with API: "  -> "Unreachable"
           [] outcome.msg[1] = "Missing required keys in response" -> "MissingFields"
           [] OTHER                                              -> "Unknown"

-----------------------------------------------------------------------------
\* C1: a status-200 JSON object that lacks one of the three keys makes
\* validate_input signal InvalidData, and async_step_user re-shows the form
\* with the error code invalid_data.
C1_MissingKeysReportInvalidData ==
    (lastOp = "user_submit" /\ ObjectMissingKey(lastResp))
        => /\ lastOutcome.exc = "InvalidData"
           /\ flowResult.type = "form"
           /\ flowResult.errors = BaseError("invalid_data")

\* C2: every non-200 status and every transport failure makes validate_input
\* signal CannotConnect, and async_step_user re-shows the form with the error
\* code cannot_connect.
C2_ConnectFailureReportsCannotConnect ==
    (lastOp = "user_submit" /\ ConnectFailure(lastResp))
        => /\ ~lastOutcome.ok
           /\ lastOutcome.exc = "CannotConnect"
           /\ flowResult.type = "form"
           /\ flowResult.step_id = "user"
           /\ flowResult.errors = BaseError("cannot_connect")

C2_Witness ==
    /\ lastOp = "user_submit"
    /\ lastResp.transport = "ok" /\ lastResp.status = 500
    /\ flowResult.errors = BaseError("cannot_connect")

\* C3: an entry is created only by a wizard submission whose validation
\* succeeded (status 200, all three keys present), and then the persisted data
\* is exactly the submitted {host, interval}; a submission whose validation
\* failed persists nothing and re-shows the form with exactly one of the
\* three error codes.
C3_SubmitOutcome ==
    lastOp = "user_submit" =>
        IF AnsweredOk(lastResp) /\ HasAllKeys(lastResp.parsed)
        THEN /\ flowResult.type = "create_entry"
             /\ flowResult.data = lastInput
             /\ entries = lastInput
        ELSE /\ entries = <<>>
             /\ flowResult.type = "form"
             /\ Cardinality(flowResult.errors) = 1
             /\ \E code \in ErrorCodes : flowResult.errors = BaseError(code)

C4_NumericBodyKeptExactly ==
    (lastOp \in FetchOps /\ ObjectWithAllKeys(lastResp) /\ AllNumeric(lastResp))
        => /\ lastOutcome.ok
           /\ last_update_success
           /\ data.kind = "object"
           /\ \A k \in DOMAIN lastResp.parsed.obj :
                  k \in DOMAIN data.obj /\ data.obj[k] = lastResp.parsed.obj[k]
           /\ \A e \in SensorKeys :
                  ReadingOf(data)[e] = [raised |-> FALSE, value |-> lastResp.parsed.obj[FieldOf[e]]]

C4_Witness ==
    /\ lastOp = "tick"
    /\ ObjectWithAllKeys(lastResp)
    /\ "extra" \in DOMAIN lastResp.parsed.obj
    /\ lastOutcome.ok
    /\ ReadingOf(data).power.value = JNum(12345)

\* C5: after every fetch cycle that follows setup, each reading's value is
\* the corresponding field of the most recent successful cycle's body: the
\* new body's field after a success, the value it had before after a
\* failure; and reading it never raises.
C5_ReadingsFollowLastSuccess ==
    /\ [](entities # {} => \A e \in SensorKeys : ~ReadingOf(data)[e].raised)
    /\ [][(fetchCount' # fetchCount /\ entities' # {})
            => IF lastOutcome'.ok
               THEN \A e \in SensorKeys :
                       /\ ~ReadingOf(data')[e].raised
                       /\ lastResp'.parsed.kind = "object"
                       /\ FieldOf[e] \in DOMAIN lastResp'.parsed.obj
                       /\ ReadingOf(data')[e].value = lastResp'.parsed.obj[FieldOf[e]]
               ELSE ReadingOf(data') = ReadingOf(data)]_vars

\* C6: for every non-200 status the fetch cycle ends in the error outcome
\* BadStatus carrying the code, which differs from the outcome of an
\* unexpected exception (Unknown) and of a transport failure (Unreachable).
C6_BadStatusClassified ==
    (lastOp \in FetchOps /\ lastResp.transport = "ok" /\ lastResp.status # HTTP_OK)
        => /\ ~lastOutcome.ok
           /\ ErrorKind(lastOutcome) = "BadStatus"
           /\ ToString(lastResp.status) \in Range(lastOutcome.msg)
           /\ ErrorKind(lastOutcome) \notin {"Unknown", "Unreachable"}

\* C7: an options submission changes only the poll interval of the persisted
\* configuration: the host stays, the interval becomes the submitted one, the
\* coordinator is not started, stopped or made to fetch; and the persisted
\* interval is always an integer in 1..3600.
C7_IntervalInRange ==
    entries # <<>> =>
        /\ entries[1].scan_interval \in Int
        /\ entries[1].scan_interval >= 1
        /\ entries[1].scan_interval <= 3600

C7_OptionsChangeOnlyInterval ==
    /\ []C7_IntervalInRange
    /\ [][(lastOp' = "options_submit" /\ optionsResult.type = "form")
            => /\ DOMAIN entries'[1] = {CONF_IP_ADDRESS, CONF_SCAN_INTERVAL}
               /\ entries'[1].ip_address = entries[1].ip_address
               /\ entries'[1].scan_interval = lastInput'[1].scan_interval
               /\ UNCHANGED <<data, last_update_success, update_interval, entities,
                              fetchCount, pc>>]_vars

C7_Witness ==
    /\ lastOp = "options_submit"
    /\ entries[1].scan_interval = 3600
    /\ update_interval = 1
    /\ entities = SensorKeys
    /\ optionsResult.type = "create_entry"

\* C8: a status-200 body with the three keys of which one has a non-numeric
\* value (a string, a null) ends the fetch cycle in an error and gives no
\* snapshot; so no reading ever shows a non-numeric value.
C8_NonNumericRejected ==
    /\ (lastOp \in FetchOps /\ ObjectWithAllKeys(lastResp) /\ ~AllNumeric(lastResp))
          => ~lastOutcome.ok
    /\ entities # {} =>
          \A e \in SensorKeys :
              ~ReadingOf(data)[e].raised => ReadingOf(data)[e].value.t = "num"

\* C9: the three readings are registered only after the forced first fetch
\* has succeeded; a failed first fetch leaves async_setup_entry as an error
\* and registers nothing; so whenever a reading exists the coordinator holds
\* a snapshot with all three required keys.
C9_SnapshotWhenReadingExists ==
    entities # {} => (data # None /\ HasAllKeys(data) /\ entities = SensorKeys)

C10_SameAcceptance ==
    /\ lastOp = "user_submit"
          => /\ lastOutcome.ok <=> async_update_data(lastResp).ok
             /\ ~lastOutcome.ok => lastOutcome.exc \in {"CannotConnect", "InvalidData"}
    /\ lastOp \in FetchOps
          => /\ lastOutcome.ok <=> validate_input(entries[1], lastResp).ok
             /\ ~lastOutcome.ok => lastOutcome.exc = "UpdateFailed"
    /\ Cardinality({validate_input(ConfigData("", 0), r).exc :
                       r \in {q \in Responses : ~validate_input(ConfigData("", 0), q).ok}}) = 1

C10_Witness ==
    /\ lastOp = "tick"
    /\ ObjectMissingKey(lastResp)
    /\ ~lastOutcome.ok
    /\ lastOutcome.exc = "UpdateFailed"

====
